---- MODULE Spec2Model ----
(***************************************************************************)
(* crud-cache-redis: a cache backend (Get / Set / Delete) over a Redis     *)
(* server.  The repository holds three generations of the same adapter:    *)
(*   "redigo"      src/cache/redis.cache.go (and src/redis.cache.go, which *)
(*                 differs only in the not-found sentinel it returns):     *)
(*                 redigo pool always built by the cache;                  *)
(*   "redigoPool"  src/unnamed/part_001: redigo, the caller may supply a   *)
(*                 pool (WithPool) or size the cache's own                 *)
(*                 (WithPoolOptions);                                      *)
(*   "goredis"     src/unnamed/part_002: go-redis v9 client, the caller    *)
(*                 may supply a client (WithClient).                       *)
(* The model holds the Redis keyspace (value bytes and remaining           *)
(* time-to-live per effective key), the connection providers with the      *)
(* number of connections checked out of each, the constructed cache        *)
(* instances, and one record per caller holding the call in flight or its  *)
(* result.                                                                 *)
(***************************************************************************)
EXTENDS Integers, Sequences, FiniteSets, TLC

VARIABLES
    variant,    \* which generation of the adapter the instances are
    opts,       \* opts[i]: the option list instance i was constructed with
    rc,         \* rc[i]: the RedisCache struct of instance i
    store,      \* the Redis keyspace: effective key -> entry
    active,     \* active[p]: connections checked out of provider p
    call,       \* call[c]: caller c's call in flight, or its result
    hist        \* hist[ek]: the last successful write to ek and its age

vars == <<variant, opts, rc, store, active, call, hist>>

-----------------------------------------------------------------------------
(* Bounds of the model.                                                    *)

\* max-active given to a pool by the sizing options the instances are built with
PoolCap == 3
\* the age of the last write is counted in ticks up to this cap
MaxTicks == 2
\* longest option list given to the constructor
MaxOpts == 2

-----------------------------------------------------------------------------
(* Time.  Go durations are int64 nanoseconds; the store keeps remaining    *)
(* time-to-live in milliseconds; the clock advances one second per Tick.   *)

Millisecond == 1000 * 1000
Second == 1000 * Millisecond
TickMs == Second \div Millisecond
MaxAge == MaxTicks * TickMs
\* go-redis: const KeepTTL = -1, a duration of -1ns
KeepTTL == 0 - 1

\* expirations a caller passes to Set: absent (zero), zero, negative,
\* whole seconds and a fraction of seconds
Durations == {KeepTTL, 0, Second, Second + (Second \div 2)}

-----------------------------------------------------------------------------
(* Values and the codec (json.Marshal / json.Unmarshal).                   *)

User(n, a) == [type |-> "User", name |-> n, age |-> a, str |-> ""]
Str(s) == [type |-> "string", name |-> "", age |-> 0, str |-> s]
\* a value json.Marshal rejects (a channel)
Chan == [type |-> "chan", name |-> "", age |-> 0, str |-> ""]

Ages == {0, 18, 20}
user1 == User("jack", 18)
str1 == Str("rose")
Values == {user1, str1, Chan}
\* the type of the destination the caller hands to Get
OutTypes == {"User", "string"}
\* the zero value of a destination: what the caller's output holds before Get
Zero(t) == IF t = "User" THEN User("", 0) ELSE Str("")

\* json.Marshal: a User becomes an object of its two fields, a string a
\* quoted string; a channel is an UnsupportedTypeError
marshal(v) ==
    CASE v.type = "User" ->
            [err |-> "nil", bytes |-> <<"{", v.name, ToString(v.age), "}">>]
      [] v.type = "string" ->
            [err |-> "nil", bytes |-> <<"q", v.str>>]
      [] OTHER ->
            [err |-> "ErrMarshal", bytes |-> <<>>]

\* json.Unmarshal into a destination of type t: an object decodes into a
\* User, a quoted string into a string, anything else is an error and the
\* destination is left as it was
unmarshal(bytes, t) ==
    IF t = "User" /\ Len(bytes) = 4 /\ bytes[1] = "{" /\ bytes[4] = "}"
          /\ \E a \in Ages : ToString(a) = bytes[3]
    THEN [err |-> "nil",
          out |-> User(bytes[2], CHOOSE a \in Ages : ToString(a) = bytes[3])]
    ELSE IF t = "string" /\ Len(bytes) = 2 /\ bytes[1] = "q"
    THEN [err |-> "nil", out |-> Str(bytes[2])]
    ELSE [err |-> "ErrUnmarshal", out |-> Zero(t)]

-----------------------------------------------------------------------------
(* Construction: functional options applied in order to the defaults.      *)

Variants == {"redigo", "redigoPool", "goredis"}
Inst == {1, 2}

DefaultHost == "localhost:6379"
DefaultMaxIdle == 5
DefaultMaxActive == 20
\* 10 * time.Minute, in seconds
DefaultIdleTimeout == 10 * 60

\* a connection provider: a redigo pool or a go-redis client
Provider(id, owner, maxIdle, maxActive, idleTimeout, wait, host, password, db, tls) ==
    [id |-> id, owner |-> owner, MaxIdle |-> maxIdle, MaxActive |-> maxActive,
     IdleTimeout |-> idleTimeout, Wait |-> wait,
     host |-> host, password |-> password, db |-> db, tls |-> tls]
\* the nil pool / nil client of a struct not yet connected
NilProvider == Provider("nil", "nobody", 0, 0, 0, FALSE, "", "", 0, FALSE)
\* the pool or client a caller built beforehand and hands to the constructor
Supplied == Provider("P", "caller", 1, PoolCap, 0, FALSE, "redis.internal:6379", "", 0, FALSE)
OwnId(i) == IF i = 1 THEN "own1" ELSE "own2"
ProviderIds == {"own1", "own2", "P"}

\* *redis.Options handed to WithClientOptions (nil when none is given)
NilOptions == [nil |-> TRUE, Addr |-> "", Password |-> "", DB |-> 0, TLS |-> FALSE]
EmptyOptions == [nil |-> FALSE, Addr |-> "", Password |-> "", DB |-> 0, TLS |-> FALSE]
CallerOptions == [nil |-> FALSE, Addr |-> "redis.internal:6379", Password |-> "", DB |-> 0, TLS |-> FALSE]

\* an option value: the name of the With... function and its arguments
Opt(name, str, n1, n2, n3) == [name |-> name, str |-> str, n1 |-> n1, n2 |-> n2, n3 |-> n3]
WithPrefix(prefix) == Opt("WithPrefix", prefix, 0, 0, 0)
WithHost(host) == Opt("WithHost", host, 0, 0, 0)
WithAddr(addr) == Opt("WithAddr", addr, 0, 0, 0)
WithPassword(password) == Opt("WithPassword", password, 0, 0, 0)
WithDB(db) == Opt("WithDB", "", db, 0, 0)
WithTLS(tls) == Opt("WithTLS", "", IF tls THEN 1 ELSE 0, 0, 0)
\* WithPool(maxIdle, maxActive, idleTimeout) of the first generation is
\* WithPoolOptions of the second
WithPoolOptions(maxIdle, maxActive, idleTimeout) ==
    Opt("WithPoolOptions", "", maxIdle, maxActive, idleTimeout)
\* WithPool(redisPool) / WithClient(client): the caller's provider, or nil
WithPool(id) == Opt("WithPool", id, 0, 0, 0)
WithClient(id) == Opt("WithClient", id, 0, 0, 0)
WithClientOptions(id) == Opt("WithClientOptions", id, 0, 0, 0)

\* the struct literal the constructors start from
Defaults ==
    [prefix |-> "", host |-> DefaultHost, password |-> "", db |-> 0,
     maxIdle |-> DefaultMaxIdle, maxActive |-> DefaultMaxActive,
     idleTimeout |-> DefaultIdleTimeout, tls |-> FALSE,
     clientOptions |-> NilOptions, redisPool |-> NilProvider]
\* part_002's struct has no pool sizing fields
DefaultsClient ==
    [Defaults EXCEPT !.maxIdle = 0, !.maxActive = 0, !.idleTimeout = 0]

\* opt(c): one option applied to the struct
ApplyOption(r, o) ==
    CASE o.name = "WithPrefix" -> [r EXCEPT !.prefix = o.str]
      [] o.name \in {"WithHost", "WithAddr"} -> [r EXCEPT !.host = o.str]
      [] o.name = "WithPassword" -> [r EXCEPT !.password = o.str]
      [] o.name = "WithDB" -> [r EXCEPT !.db = o.n1]
      [] o.name = "WithTLS" -> [r EXCEPT !.tls = (o.n1 = 1)]
      [] o.name = "WithPoolOptions" ->
            [r EXCEPT !.maxIdle = o.n1, !.maxActive = o.n2, !.idleTimeout = o.n3]
      [] o.name \in {"WithPool", "WithClient"} ->
            [r EXCEPT !.redisPool = IF o.str = "P" THEN Supplied ELSE NilProvider]
      [] o.name = "WithClientOptions" ->
            [r EXCEPT !.clientOptions = IF o.str = "O" THEN CallerOptions ELSE NilOptions]
      [] OTHER -> r

\* for _, opt := range opts { opt(c) }
RECURSIVE ApplyOptions(_, _)
ApplyOptions(r, os) ==
    IF os = <<>> THEN r ELSE ApplyOptions(ApplyOption(r, Head(os)), Tail(os))

\* connect() / newPool(): the cache's own pool, sized and dialled from the struct
newPool(r, i) ==
    [r EXCEPT !.redisPool =
        Provider(OwnId(i), "cache", r.maxIdle, r.maxActive, r.idleTimeout, TRUE,
                 r.host, r.password, r.db, FALSE)]

\* newClient(): the options record (the caller's, through its pointer, or
\* a fresh one) is overwritten field by field and the client built from it
newClient(r, i) ==
    LET o0 == IF r.clientOptions.nil THEN EmptyOptions ELSE r.clientOptions
        o1 == IF Len(r.host) > 0 THEN [o0 EXCEPT !.Addr = r.host] ELSE o0
        o2 == IF Len(r.password) > 0 THEN [o1 EXCEPT !.Password = r.password] ELSE o1
        o3 == IF r.db # 0 THEN [o2 EXCEPT !.DB = r.db] ELSE o2
        o4 == IF r.tls THEN [o3 EXCEPT !.TLS = TRUE] ELSE o3
    IN  [r EXCEPT
            !.clientOptions = IF r.clientOptions.nil THEN NilOptions ELSE o4,
            !.redisPool =
                Provider(OwnId(i), "cache", 0, 0, 0, TRUE,
                         o4.Addr, o4.Password, o4.DB, o4.TLS)]

\* NewRedisCache of src/cache/redis.cache.go: connect() unconditionally
NewRedisCache(i, os) == newPool(ApplyOptions(Defaults, os), i)

\* a constructor that connects whatever the options left in the struct
NewRedisCacheAlways(i, os) == newPool(ApplyOptions(Defaults, os), i)

\* NewRedisCache of part_001: newPool() only when no pool was supplied
NewRedisCachePool(i, os) ==
    LET c == ApplyOptions(Defaults, os)
    IN  IF c.redisPool = NilProvider THEN newPool(c, i) ELSE c

\* New of part_002: newClient() only when no client was supplied
New(i, os) ==
    LET c == ApplyOptions(DefaultsClient, os)
    IN  IF c.redisPool = NilProvider THEN newClient(c, i) ELSE c

Construct(v, i, os) ==
    CASE v = "redigo" -> NewRedisCache(i, os)
      [] v = "redigoPool" -> NewRedisCachePool(i, os)
      [] OTHER -> New(i, os)

-----------------------------------------------------------------------------
(* The Redis keyspace and the commands the adapter sends.                  *)

Callers == {"c1"}
Keys == {"k", "bk"}
Prefixes == {"", "a", "ab"}
\* a cache key that leaves the prefix out
cacheKeyNoPrefix(r, key) == key

\* cacheKey := rc.prefix + key
cacheKey(r, key) == r.prefix \o key

Absent == [present |-> FALSE, bytes |-> <<>>, expires |-> FALSE, ttl |-> 0]
Entry(bytes, expires, ttl) ==
    [present |-> TRUE, bytes |-> bytes, expires |-> expires, ttl |-> ttl]

\* GET key: the bulk reply, or the nil reply when the key is absent
RedisGET(s, ek) == [isNil |-> ~s[ek].present, bytes |-> s[ek].bytes]
\* SET key value: stores the value and discards any time-to-live of the key
RedisSET(s, ek, bytes) == [s EXCEPT ![ek] = Entry(bytes, FALSE, 0)]
\* SET key value PX ms (SETEX and EX, with the seconds in milliseconds)
RedisSETPX(s, ek, ms, bytes) == [s EXCEPT ![ek] = Entry(bytes, TRUE, ms)]
\* SET key value KEEPTTL: stores the value and retains the key's time-to-live
RedisSETKEEPTTL(s, ek, bytes) ==
    [s EXCEPT ![ek] = Entry(bytes, s[ek].present /\ s[ek].expires,
                            IF s[ek].present /\ s[ek].expires THEN s[ek].ttl ELSE 0)]
\* a DEL that removes nothing
RedisDELNothing(s, ek) == s

\* DEL key: removes the key; an absent key is no error
RedisDEL(s, ek) == [s EXCEPT ![ek] = Absent]

\* a Set that drops the expiration and always sends a plain SET
SetRedigoNoTTL(s, ek, d, bytes) ==
    [err |-> "nil", store |-> RedisSET(s, ek, bytes)]

\* redigo generations: expiresIn := options.Exipration.Seconds(), a float64;
\* SETEX when it is > 0, else SET.  redigo writes the float with
\* strconv.FormatFloat(.., 'g', -1, 64): "1" for a whole number of seconds,
\* "1.5" otherwise, and Redis refuses a SETEX whose seconds are no integer.
SetRedigo(s, ek, d, bytes) ==
    IF d > 0
    THEN IF d % Second = 0
         THEN [err |-> "nil", store |-> RedisSETPX(s, ek, (d \div Second) * TickMs, bytes)]
         ELSE [err |-> "ErrCmd", store |-> s]
    ELSE [err |-> "nil", store |-> RedisSET(s, ek, bytes)]

\* go-redis: usePrecise, formatMs, formatSec of commands.go
usePrecise(d) == d < Second \/ d % Second # 0
formatMs(d) == IF d > 0 /\ d < Millisecond THEN 1 ELSE d \div Millisecond
formatSec(d) == IF d > 0 /\ d < Second THEN 1 ELSE d \div Second

\* go-redis generation: rc.client.Set(ctx, cacheKey, bytes, options.Exipration):
\* PX or EX for an expiration > 0, KEEPTTL for the expiration KeepTTL (-1),
\* a plain SET otherwise
SetGoredis(s, ek, d, bytes) ==
    IF d > 0
    THEN IF usePrecise(d)
         THEN [err |-> "nil", store |-> RedisSETPX(s, ek, formatMs(d), bytes)]
         ELSE [err |-> "nil", store |-> RedisSETPX(s, ek, formatSec(d) * TickMs, bytes)]
    ELSE IF d = KeepTTL
    THEN [err |-> "nil", store |-> RedisSETKEEPTTL(s, ek, bytes)]
    ELSE [err |-> "nil", store |-> RedisSET(s, ek, bytes)]

\* the not-found sentinel of each generation
NotFound(v) ==
    CASE v = "redigo" -> "ErrNotExist"
      [] v = "redigoPool" -> "cache.ErrNotExsit"
      [] OTHER -> "types.ErrNotFound"
\* a wrapper that keeps redis.Nil apart and drops every other error
WrapRedisErrorSwallow(err) == IF err = "redis.Nil" THEN "types.ErrNotFound" ELSE "nil"

\* wrapRedisError: redis.Nil becomes types.ErrNotFound, any other error is kept
wrapRedisError(err) == IF err = "redis.Nil" THEN "types.ErrNotFound" ELSE err

-----------------------------------------------------------------------------
(* Calls.  A handler is the invocation (options, marshal, cacheKey) and    *)
(* then the one line that borrows a connection and sends the command,      *)
(* which is where a call can block.                                        *)

Faults == {"none", "dial", "cmd"}

NoHist == [kind |-> "none", val |-> Zero("User"), dur |-> 0, age |-> 0, expired |-> FALSE]
Wrote(kind, v, d) == [kind |-> kind, val |-> v, dur |-> d, age |-> 0, expired |-> FALSE]

\* a caller's record: the call and its arguments while it is in flight
\* (pc = "waitPool"), what it returned afterwards (pc = "done": err, out),
\* and what the call met: the transport fault, whether any step of it
\* failed, the provider it asked for its connection, the history and
\* presence of its key when its command ran, and whether the command
\* changed the keyspace
Idle ==
    [pc |-> "idle", op |-> "none", inst |-> 1, key |-> "", val |-> Zero("User"),
     dur |-> 0, typ |-> "User", ctx |-> "live", err |-> "nil",
     out |-> Zero("User"), fault |-> "none", failed |-> FALSE, via |-> "nil",
     sent |-> 0, dialed |-> <<>>,
     seen |-> NoHist, present |-> FALSE, changed |-> FALSE]
Pending(op, i, k, v, d, t) ==
    [Idle EXCEPT !.pc = "waitPool", !.op = op, !.inst = i, !.key = k,
                 !.val = v, !.dur = d, !.typ = t, !.out = Zero(t)]
Done(cl, err, out, a, failed, changed) ==
    [Idle EXCEPT !.pc = "done", !.op = cl.op, !.inst = cl.inst, !.key = cl.key,
                 !.val = cl.val, !.dur = cl.dur, !.typ = cl.typ, !.err = err, !.out = out, !.fault = a.fault,
                 !.via = a.via, !.sent = a.sent, !.dialed = a.dialed,
                 !.failed = failed,
                 !.changed = changed,
                 !.seen = hist[cacheKey(rc[cl.inst], cl.key)],
                 !.present = store[cacheKey(rc[cl.inst], cl.key)].present]
Free(c) == call[c].pc \in {"idle", "done"}

\* the commands sent on a newly dialled connection before it is handed
\* out.  The Dial function of the redigo generations sends SELECT when
\* db > 0 and then AUTH when a password is set; go-redis (initConn)
\* authenticates first and selects the db after.
DialCommands(p) ==
    IF variant = "goredis"
    THEN (IF p.password # "" THEN <<"AUTH">> ELSE <<>>)
            \o (IF p.db > 0 THEN <<"SELECT">> ELSE <<>>)
    ELSE (IF p.db > 0 THEN <<"SELECT">> ELSE <<>>)
            \o (IF p.password # "" THEN <<"AUTH">> ELSE <<>>)

\* the dial: connect, then the commands in order.  A store for which a
\* password is configured refuses every command before AUTH with NOAUTH,
\* and Dial closes the connection and returns that error.
Handshake(p) ==
    LET cmds == DialCommands(p)
        refused == p.password # "" /\ cmds # <<>> /\ Head(cmds) # "AUTH"
    IN  [steps |-> <<"connect">> \o (IF refused THEN <<Head(cmds)>> ELSE cmds),
         err |-> IF refused THEN "NOAUTH" ELSE "nil"]

\* redigo Pool.Get with MaxActive > 0 and every connection checked out
Exhausted(p) == variant # "goredis" /\ p.MaxActive > 0 /\ active[p.id] >= p.MaxActive
\* Wait: true makes Pool.Get block until a connection is given back
Blocked(p) == Exhausted(p) /\ p.Wait

\* rc.redisPool.Get(): the error of the connection the pool hands out and
\* the pool's count of checked-out connections afterwards.  The redigo
\* generations never Close() the connection they borrow, so it stays
\* checked out; a failed dial gives its slot back.
PoolGet(p, f) ==
    IF Exhausted(p)
    THEN [err |-> "ErrPoolExhausted", fault |-> "pool", via |-> p.id, sent |-> 0,
          dialed |-> <<>>, active |-> active]
    ELSE IF f = "dial"
    THEN [err |-> "ErrDial", fault |-> f, via |-> p.id, sent |-> 0,
          dialed |-> <<>>, active |-> active]
    ELSE IF Handshake(p).err # "nil"
    THEN [err |-> Handshake(p).err, fault |-> "dial", via |-> p.id, sent |-> 0,
          dialed |-> Handshake(p).steps, active |-> active]
    ELSE [err |-> "nil", fault |-> f, via |-> p.id, sent |-> 1,
          dialed |-> Handshake(p).steps,
          active |-> [active EXCEPT ![p.id] = @ + 1]]

\* redis.NewClient(options) with options.MaxRetries left 0: go-redis sets
\* it to 3.  A client the caller built follows the caller's retry policy,
\* taken here to be no retries.
DefaultMaxRetries == 3
MaxRetries(p) == IF p.owner = "cache" THEN DefaultMaxRetries ELSE 0

\* how often go-redis writes the command to the store: once, and again
\* after each failure up to MaxRetries times (baseClient.process)
Attempts(p, f) == IF f = "cmd" THEN 1 + MaxRetries(p) ELSE 1

\* rc.client.<cmd>(ctx, ...): go-redis takes a connection from the client's
\* pool and gives it back when the command is done
ClientConn(p, f) ==
    IF f = "dial"
    THEN [err |-> "ErrDial", fault |-> f, via |-> p.id, sent |-> 0,
          dialed |-> <<>>, active |-> active]
    ELSE [err |-> "nil", fault |-> f, via |-> p.id, sent |-> Attempts(p, f),
          dialed |-> Handshake(p).steps, active |-> active]

Conn(p, f) == IF variant = "goredis" THEN ClientConn(p, f) ELSE PoolGet(p, f)

\* redis.Bytes(conn.Do("GET", cacheKey)) / client.Get(ctx, cacheKey).Bytes():
\* the library's nil error for an absent key
Bytes(s, ek, a, nilErr) ==
    IF a.err # "nil" THEN [err |-> a.err, bytes |-> <<>>, isNil |-> TRUE]
    ELSE IF a.fault = "cmd" THEN [err |-> "ErrCmd", bytes |-> <<>>, isNil |-> TRUE]
    ELSE IF RedisGET(s, ek).isNil THEN [err |-> nilErr, bytes |-> <<>>, isNil |-> TRUE]
    ELSE [err |-> "nil", bytes |-> RedisGET(s, ek).bytes, isNil |-> FALSE]

\* a Get that turns the library's nil error into success
GetRedigoSilent(reply, t, sentinel) ==
    IF reply.err # "nil"
    THEN IF reply.err = "redis.ErrNil"
         THEN [err |-> "nil", out |-> Zero(t)]
         ELSE [err |-> reply.err, out |-> Zero(t)]
    ELSE unmarshal(reply.bytes, t)

\* the return path of Get in the redigo generations
GetRedigo(reply, t, sentinel) ==
    IF reply.err # "nil"
    THEN IF reply.err = "redis.ErrNil"
         THEN [err |-> sentinel, out |-> Zero(t)]
         ELSE [err |-> reply.err, out |-> Zero(t)]
    ELSE IF reply.isNil
    THEN [err |-> "nil", out |-> Zero(t)]
    ELSE unmarshal(reply.bytes, t)

\* a Get that reads the bytes and never decodes them into the output
GetGoredisUntouched(reply, t) ==
    IF reply.err # "nil"
    THEN [err |-> wrapRedisError(reply.err), out |-> Zero(t)]
    ELSE [err |-> "nil", out |-> Zero(t)]

\* the return path of Get in the go-redis generation
GetGoredis(reply, t) ==
    IF reply.err # "nil"
    THEN [err |-> wrapRedisError(reply.err), out |-> Zero(t)]
    ELSE unmarshal(reply.bytes, t)

\* a call that never asked for a connection (a marshal error, a context
\* found done)
NoConn(fault) ==
    [err |-> "nil", fault |-> fault, via |-> "nil", sent |-> 0, dialed |-> <<>>,
     active |-> active]
\* a connection that is served without fault
GoodConn(p) ==
    [err |-> "nil", fault |-> "none", via |-> p.id, sent |-> 1,
     dialed |-> Handshake(p).steps, active |-> active]

\* what Get returns for key k of the struct r over the keyspace s, on the
\* connection a
GetResult(s, r, k, t, a) ==
    IF variant = "goredis"
    THEN GetGoredis(Bytes(s, cacheKey(r, k), a, "redis.Nil"), t)
    ELSE GetRedigo(Bytes(s, cacheKey(r, k), a, "redis.ErrNil"), t, NotFound(variant))

\* what Set does to the keyspace s and returns, on the connection a
SetResult(s, r, k, v, d, a) ==
    IF a.err # "nil" THEN [err |-> a.err, store |-> s]
    ELSE IF a.fault = "cmd" THEN [err |-> "ErrCmd", store |-> s]
    ELSE IF variant = "goredis" THEN SetGoredis(s, cacheKey(r, k), d, marshal(v).bytes)
    ELSE SetRedigo(s, cacheKey(r, k), d, marshal(v).bytes)

\* a Delete that sends no DEL
DeleteResultNoop(s, r, k, a) ==
    IF a.err # "nil" THEN [err |-> a.err, store |-> s]
    ELSE IF a.fault = "cmd" THEN [err |-> "ErrCmd", store |-> s]
    ELSE [err |-> "nil", store |-> s]

\* a Delete that reports a DEL which removed nothing as not found
DeleteResultStrict(s, r, k, a) ==
    IF a.err # "nil" THEN [err |-> a.err, store |-> s]
    ELSE IF a.fault = "cmd" THEN [err |-> "ErrCmd", store |-> s]
    ELSE IF ~RedisGET(s, cacheKey(r, k)).isNil
    THEN [err |-> "nil", store |-> RedisDEL(s, cacheKey(r, k))]
    ELSE [err |-> NotFound(variant), store |-> s]

\* what Delete does to the keyspace s and returns, on the connection a
DeleteResult(s, r, k, a) ==
    IF a.err # "nil" THEN [err |-> a.err, store |-> s]
    ELSE IF a.fault = "cmd" THEN [err |-> "ErrCmd", store |-> s]
    ELSE [err |-> "nil", store |-> RedisDEL(s, cacheKey(r, k))]

-----------------------------------------------------------------------------
(* Actions.                                                                *)

\* the call may go on: the pool does not make it wait, and go-redis has not
\* seen its context done
Ready(cl) ==
    /\ ~Blocked(rc[cl.inst].redisPool)
    /\ variant = "goredis" => cl.ctx = "live"

\* Get: the GET and the return
GetFinish(c, cl, f) ==
    LET r == rc[cl.inst]
        a == Conn(r.redisPool, f)
        e == store[cacheKey(r, cl.key)]
        res == GetResult(store, r, cl.key, cl.typ, a)
        failed == a.fault # "none" \/ (e.present /\ unmarshal(e.bytes, cl.typ).err # "nil")
    IN  /\ active' = a.active
        /\ call' = [call EXCEPT ![c] = Done(cl, res.err, res.out, a, failed, FALSE)]
        /\ UNCHANGED <<variant, opts, rc, store, hist>>

\* Set: the SETEX / SET and the return
SetFinish(c, cl, f) ==
    LET r == rc[cl.inst]
        a == Conn(r.redisPool, f)
        ek == cacheKey(r, cl.key)
        res == SetResult(store, r, cl.key, cl.val, cl.dur, a)
        refused == variant # "goredis" /\ cl.dur > 0 /\ cl.dur % Second # 0
    IN  /\ active' = a.active
        /\ store' = res.store
        /\ hist' = IF res.err = "nil"
                   THEN [hist EXCEPT ![ek] = Wrote("set", cl.val, cl.dur)]
                   ELSE hist
        /\ call' = [call EXCEPT ![c] =
                      Done(cl, res.err, Zero(cl.typ), a,
                           a.fault # "none" \/ refused, res.store # store)]
        /\ UNCHANGED <<variant, opts, rc>>

\* Delete: the DEL and the return
DeleteFinish(c, cl, f) ==
    LET r == rc[cl.inst]
        a == Conn(r.redisPool, f)
        ek == cacheKey(r, cl.key)
        res == DeleteResult(store, r, cl.key, a)
    IN  /\ active' = a.active
        /\ store' = res.store
        /\ hist' = IF res.err = "nil"
                   THEN [hist EXCEPT ![ek] = Wrote("del", Zero("User"), 0)]
                   ELSE hist
        /\ call' = [call EXCEPT ![c] =
                      Done(cl, res.err, Zero(cl.typ), a,
                           a.fault # "none", res.store # store)]
        /\ UNCHANGED <<variant, opts, rc>>

\* the call stays where it is, waiting for a connection
Wait(c, cl) ==
    /\ call' = [call EXCEPT ![c] = cl]
    /\ UNCHANGED <<variant, opts, rc, store, active, hist>>

\* Get(ctx, key, &value): the whole handler; f is what the transport does
Get(c, i, k, t, f) ==
    LET cl == Pending("Get", i, k, Zero("User"), 0, t)
    IN  /\ Free(c)
        /\ IF Ready(cl) THEN GetFinish(c, cl, f) ELSE Wait(c, cl)

\* a Set that goes on to the store whatever marshal returned
SetUnchecked(c, i, k, v, d, f) ==
    LET cl == Pending("Set", i, k, v, d, "User")
    IN  /\ Free(c)
        /\ IF Ready(cl) THEN SetFinish(c, cl, f) ELSE Wait(c, cl)

\* Set(ctx, key, value, WithExpiration(d)): the whole handler.  A marshal
\* error is returned before any connection is borrowed.
Set(c, i, k, v, d, f) ==
    LET cl == Pending("Set", i, k, v, d, "User")
    IN  /\ Free(c)
        /\ IF marshal(v).err # "nil"
           THEN /\ call' = [call EXCEPT ![c] =
                    Done(cl, marshal(v).err, Zero("User"), NoConn("none"), TRUE, FALSE)]
                /\ UNCHANGED <<variant, opts, rc, store, active, hist>>
           ELSE IF Ready(cl) THEN SetFinish(c, cl, f) ELSE Wait(c, cl)

\* Delete(ctx, key): the whole handler
Delete(c, i, k, f) ==
    LET cl == Pending("Delete", i, k, Zero("User"), 0, "User")
    IN  /\ Free(c)
        /\ IF Ready(cl) THEN DeleteFinish(c, cl, f) ELSE Wait(c, cl)

\* a call is issued and has not yet asked for its connection
Invoke(c, op, i, k, v, d, t) ==
    /\ Free(c)
    /\ op \in {"Get", "Set", "Delete"}
    /\ call' = [call EXCEPT ![c] =
                  IF op = "Set" /\ marshal(v).err # "nil"
                  THEN Done(Pending(op, i, k, v, d, t), marshal(v).err, Zero(t),
                            NoConn("none"), TRUE, FALSE)
                  ELSE Pending(op, i, k, v, d, t)]
    /\ UNCHANGED <<variant, opts, rc, store, active, hist>>

\* a call in flight gets its connection, sends its command and returns
Proceed(c, f) ==
    /\ call[c].pc = "waitPool"
    /\ Ready(call[c])
    /\ CASE call[c].op = "Get" -> GetFinish(c, call[c], f)
         [] call[c].op = "Set" -> SetFinish(c, call[c], f)
         [] OTHER -> DeleteFinish(c, call[c], f)

\* the caller's context is cancelled, or its deadline passes, during the call
CtxDone(c) ==
    /\ call[c].pc = "waitPool"
    /\ call[c].ctx = "live"
    /\ call' = [call EXCEPT ![c].ctx = "done"]
    /\ UNCHANGED <<variant, opts, rc, store, active, hist>>

\* go-redis gives up a call whose context is done and returns ctx.Err();
\* the redigo generations never look at the context they are handed
Abort(c) ==
    /\ variant = "goredis"
    /\ call[c].pc = "waitPool"
    /\ call[c].ctx = "done"
    /\ call' = [call EXCEPT ![c] =
                  Done(call[c], "context.Canceled", Zero(call[c].typ), NoConn("ctx"), TRUE, FALSE)]
    /\ UNCHANGED <<variant, opts, rc, store, active, hist>>

\* one second passes: Redis drops the entries whose time-to-live runs out
Expire(e) ==
    IF e.present /\ e.expires
    THEN IF e.ttl > TickMs THEN [e EXCEPT !.ttl = @ - TickMs] ELSE Absent
    ELSE e
Older(h, gone) ==
    IF h.kind = "set"
    THEN [h EXCEPT !.age = IF @ + TickMs > MaxAge THEN MaxAge ELSE @ + TickMs,
                   !.expired = @ \/ gone]
    ELSE h
Tick ==
    /\ store' = [ek \in DOMAIN store |-> Expire(store[ek])]
    /\ hist' = [ek \in DOMAIN hist |->
                  Older(hist[ek], store[ek].present /\ ~Expire(store[ek]).present)]
    /\ UNCHANGED <<variant, opts, rc, active, call>>

-----------------------------------------------------------------------------
(* Specifications.                                                         *)

\* the option lists instance 1 of Spec is built with: a prefix, and the
\* pool either sized by the options or supplied by the caller
SpecOptLists(v) ==
    CASE v = "redigo" ->
            {<<WithPrefix("a"), WithPoolOptions(1, PoolCap, 0)>>}
      [] v = "redigoPool" ->
            {<<WithPrefix("a"), WithPoolOptions(1, PoolCap, 0)>>,
             <<WithPrefix("a"), WithPool("P")>>}
      [] OTHER ->
            {<<WithPrefix("a")>>, <<WithPrefix("a"), WithClient("P")>>}

\* the state after construction: the structs built from the option lists,
\* an empty keyspace over the effective keys of the instances I and the
\* logical keys K, no connection checked out, no call made
InitRest(I, K) ==
    /\ rc = [i \in Inst |-> Construct(variant, i, opts[i])]
    /\ store = [ek \in {cacheKey(rc[i], k) : i \in I, k \in K} |-> Absent]
    /\ active = [p \in ProviderIds |-> 0]
    /\ call = [c \in Callers |-> Idle]
    /\ hist = [ek \in DOMAIN store |-> NoHist]

Init ==
    /\ variant \in Variants
    /\ \E os \in SpecOptLists(variant) :
          opts = [i \in Inst |-> IF i = 1 THEN os ELSE <<WithPrefix("ab")>>]
    /\ InitRest({1}, {"k"})

\* the calls of the callers C on the instances I with keys K, values V,
\* expirations D and transport faults F
Ops(C, I, K, V, D, F) ==
    \/ \E c \in C, i \in I, k \in K, t \in OutTypes, f \in F : Get(c, i, k, t, f)
    \/ \E c \in C, i \in I, k \in K, v \in V, d \in D, f \in F : Set(c, i, k, v, d, f)
    \/ \E c \in C, i \in I, k \in K, f \in F : Delete(c, i, k, f)

\* one instance, one key: the life of one cache entry
Next ==
    \/ Ops(Callers, {1}, {"k"}, Values, Durations, Faults)
    \/ Tick

Spec == Init /\ [][Next]_vars

-----------------------------------------------------------------------------
(* Properties of one cache entry (Spec).  They speak of calls that were    *)
(* served: the call got a connection and the store answered its command.   *)
(* What a call returns when the transport fails is C10's subject.          *)

Served(c, op) == call[c].pc = "done" /\ call[c].op = op /\ call[c].fault = "none"
\* the destination handed to Get has the type of the value v
Fits(c, v) == call[c].typ = v.type
\* more than d (ns) has passed after age (ms); less than d has passed
After(age, d) == age > d \div Millisecond
Before(age, d) == age <= (d - 1) \div Millisecond

\* C1: a Get served while the last successful write to its key is a Set of v,
\* with no Delete and no expiry of the key since, returns no error and
\* writes v to the output
C1_RoundTrip ==
    \A c \in Callers :
        (Served(c, "Get") /\ call[c].seen.kind = "set" /\ ~call[c].seen.expired
            /\ Fits(c, call[c].seen.val))
        => (call[c].err = "nil" /\ call[c].out = call[c].seen.val)

C1_Witness ==
    \E c \in Callers :
        /\ Served(c, "Get") /\ call[c].seen.kind = "set" /\ ~call[c].seen.expired
        /\ call[c].seen.val = str1 /\ call[c].out = str1 /\ call[c].err = "nil"

\* C2: a Get served for a key that was never set, or whose entry has
\* expired, returns the not-found sentinel (not nil, not another error) and
\* leaves the output as it was
C2_NotFound ==
    \A c \in Callers :
        (Served(c, "Get")
            /\ (call[c].seen.kind = "none"
                \/ (call[c].seen.kind = "set" /\ call[c].seen.expired)))
        => (call[c].err = NotFound(variant) /\ call[c].out = Zero(call[c].typ))

C2_Witness ==
    \E c \in Callers :
        /\ Served(c, "Get") /\ call[c].seen.kind = "set" /\ call[c].seen.expired
        /\ call[c].err = NotFound(variant)

\* C3: after a successful Set(k, v, T) with T > 0 and no later write to k, a
\* Get served when more than T has passed returns the not-found sentinel,
\* and a Get served before T has passed returns v
C3_Expiry ==
    \A c \in Callers :
        (Served(c, "Get") /\ call[c].seen.kind = "set" /\ call[c].seen.dur > 0)
        => /\ After(call[c].seen.age, call[c].seen.dur)
                => call[c].err = NotFound(variant)
           /\ (Before(call[c].seen.age, call[c].seen.dur) /\ Fits(c, call[c].seen.val))
                => (call[c].err = "nil" /\ call[c].out = call[c].seen.val)

C3_Witness ==
    \E c \in Callers :
        /\ Served(c, "Get") /\ call[c].seen.kind = "set" /\ call[c].seen.dur > 0
        /\ After(call[c].seen.age, call[c].seen.dur)
        /\ call[c].err = NotFound(variant)

\* C4: a Get served while the last successful write to its key is a Delete
\* returns the not-found sentinel
C4_AfterDelete ==
    \A c \in Callers :
        (Served(c, "Get") /\ call[c].seen.kind = "del")
        => call[c].err = NotFound(variant)

C4_Witness ==
    \E c \in Callers :
        /\ Served(c, "Get") /\ call[c].seen.kind = "del"
        /\ call[c].err = NotFound(variant)

\* C7: a Get served after a successful Set whose expiration was not greater
\* than 0, with no later write to the key, returns the value, however much
\* time has passed and whatever the key held before
C7_NoExpiration ==
    \A c \in Callers :
        (Served(c, "Get") /\ call[c].seen.kind = "set" /\ call[c].seen.dur <= 0
            /\ Fits(c, call[c].seen.val))
        => (call[c].err = "nil" /\ call[c].out = call[c].seen.val)

\* C9: a Delete served for a key that is absent returns no error and leaves
\* the keyspace as it was
C9_DeleteIdempotent ==
    \A c \in Callers :
        (Served(c, "Delete") /\ ~call[c].present)
        => (call[c].err = "nil" /\ ~call[c].changed)

C9_Witness ==
    \E c \in Callers :
        /\ Served(c, "Delete") /\ ~call[c].present /\ call[c].seen.kind = "del"
        /\ call[c].err = "nil"

\* C10: a call one of whose steps failed (the connection, the store's
\* command, the codec) returned an error; so a call that returned nil had
\* every step succeed
C10_NoErrorSwallowed ==
    \A c \in Callers :
        (call[c].pc = "done" /\ call[c].failed) => call[c].err # "nil"

C10_Witness ==
    \E c \in Callers :
        /\ Served(c, "Get") /\ call[c].failed /\ call[c].err = "ErrUnmarshal"

-----------------------------------------------------------------------------
(* Two instances over one backing store (SpecIso).                         *)

\* the option list of an instance of SpecIso: its prefix (none for the
\* empty prefix) and its pool: PoolCap connections of its own in the first
\* generation, one pool supplied to both instances in the second
IsoOptions(v, p) ==
    (IF p = "" THEN <<>> ELSE <<WithPrefix(p)>>)
        \o (CASE v = "redigo" -> <<WithPoolOptions(1, PoolCap, 0)>>
               [] v = "redigoPool" -> <<WithPool("P")>>
               [] OTHER -> <<>>)

\* the prefixes of the two instances: different ones, one a prefix of the
\* other or empty, and the same one twice
IsoPrefixes == {<<"", "a">>, <<"", "ab">>, <<"a", "ab">>, <<"a", "a">>}

InitIso ==
    /\ variant \in Variants
    /\ \E p \in IsoPrefixes : opts = [i \in Inst |-> IsoOptions(variant, p[i])]
    /\ InitRest(Inst, Keys)

NextIso == Ops(Callers, Inst, Keys, {user1}, {0}, {"none"})

SpecIso == InitIso /\ [][NextIso]_vars

\* what a Get(k) on instance j would return over the keyspace s
GetView(s, j, k, t) == GetResult(s, rc[j], k, t, GoodConn(rc[j].redisPool))

\* C5: a Set(k, v) on an instance changes, for no instance built with a
\* different prefix, what a Get(k) of the same logical key returns
C5_PrefixIsolation ==
    [][\A c \in Callers :
          (call'[c].pc = "done" /\ call'[c].op = "Set" /\ call[c] # call'[c])
          => \A j \in Inst :
                rc[j].prefix # rc[call'[c].inst].prefix
                => \A t \in OutTypes :
                      GetView(store', j, call'[c].key, t) = GetView(store, j, call'[c].key, t)]_vars

\* instance 1 holds a value under k, and a Get(k) served on instance 2,
\* built with another prefix, found nothing
C5_Witness ==
    \E c \in Callers :
        /\ rc[1].prefix # rc[2].prefix
        /\ store[cacheKey(rc[1], "k")].present
        /\ Served(c, "Get") /\ call[c].inst = 2 /\ call[c].key = "k"
        /\ call[c].err = NotFound(variant)

-----------------------------------------------------------------------------
(* Construction from any list of options (SpecNew).                        *)

\* the options a caller can pass to the constructor of each generation
NewOptions(v) ==
    CASE v = "redigo" ->
            {WithHost("10.0.0.1:6379"), WithPassword("pw"), WithDB(1),
             WithPoolOptions(2, 1, 30)}
      [] v = "redigoPool" ->
            {WithHost("10.0.0.1:6379"), WithPassword("pw"), WithDB(1),
             WithPoolOptions(2, 1, 30), WithPool("P"), WithPool("nil")}
      [] OTHER ->
            {WithAddr("10.0.0.1:6379"), WithPassword("pw"), WithDB(1), WithTLS(TRUE),
             WithClientOptions("O"), WithClient("P"), WithClient("nil")}

\* the lists of at most n of the options S, in every order
OptLists(S, n) == UNION {[1..m -> S] : m \in 0..n}

InitNew ==
    /\ variant \in Variants
    /\ \E os \in OptLists(NewOptions(variant), MaxOpts) :
          opts = [i \in Inst |-> IF i = 1 THEN os ELSE <<>>]
    /\ InitRest({1}, {"k"})

NextNew == Ops(Callers, {1}, {"k"}, {user1}, {0}, {"none"})

SpecNew == InitNew /\ [][NextNew]_vars

\* the pool / client options of a list, in order
PoolOptions(os) == SelectSeq(os, LAMBDA o : o.name \in {"WithPool", "WithClient"})
\* the constructor was handed a pre-built pool or client: the last such
\* option of the list carries one that is not nil
SuppliedTo(os) ==
    /\ PoolOptions(os) # <<>>
    /\ PoolOptions(os)[Len(PoolOptions(os))].str = "P"
\* the sizing and dial options of a list
IsDialOption(o) ==
    o.name \in {"WithHost", "WithAddr", "WithPassword", "WithDB", "WithTLS",
                "WithPoolOptions", "WithClientOptions"}

\* C6: an instance constructed with a pre-built pool or client holds exactly
\* that pool or client, with the caller's settings, whatever sizing and
\* dial options came before or after it; no connection is ever taken from
\* a pool of the cache's own, and every call that asks for a connection
\* asks the supplied pool or client
C6_SuppliedPoolUsed ==
    \A i \in Inst :
        SuppliedTo(opts[i])
        => /\ rc[i].redisPool = Supplied
           /\ active[OwnId(i)] = 0
           /\ \A c \in Callers :
                 (call[c].pc = "done" /\ call[c].inst = i /\ call[c].via # "nil")
                 => call[c].via = Supplied.id

\* a pool or client was supplied first and a sizing or dial option after
\* it, and a Set was served on the supplied one
C6_Witness ==
    \E c \in Callers :
        /\ Len(opts[1]) = 2
        /\ opts[1][1].name \in {"WithPool", "WithClient"} /\ opts[1][1].str = "P"
        /\ IsDialOption(opts[1][2])
        /\ Served(c, "Set") /\ call[c].inst = 1 /\ call[c].via = Supplied.id

-----------------------------------------------------------------------------
(* Calls in flight and their contexts (SpecCalls): a call is issued, and   *)
(* later gets its connection and returns; in between its context may end.  *)

NextCalls ==
    \/ \E c \in Callers, op \in {"Get", "Set", "Delete"} :
          Invoke(c, op, 1, "k", user1, 0, "User")
    \/ \E c \in Callers : Proceed(c, "none")
    \/ \E c \in Callers : CtxDone(c)
    \/ \E c \in Callers : Abort(c)

SpecCalls == Init /\ [][NextCalls]_vars

\* C8: a call that waits for a connection its pool cannot give, and whose
\* context is cancelled or past its deadline, can return to its caller
C8_ContextHonored ==
    \A c \in Callers :
        (call[c].pc = "waitPool" /\ call[c].ctx = "done"
            /\ Blocked(rc[call[c].inst].redisPool))
        => ENABLED Abort(c)

-----------------------------------------------------------------------------
(* Commands written to the store by one call (Spec).                       *)

\* C11: a call that has returned wrote its data command (GET, SET / SETEX,
\* DEL) to the store at most once
C11_NoRetries ==
    \A c \in Callers : call[c].pc = "done" => call[c].sent <= 1

-----------------------------------------------------------------------------
(* Several callers on one instance (SpecConc): each call is issued, and    *)
(* later takes its connection, has its command answered by Redis, which    *)
(* runs one command at a time, and returns.  Calls of different callers    *)
(* overlap in every way.                                                   *)

ConcCallers == {"c1", "c2"}

InitConc ==
    /\ variant \in Variants
    /\ \E os \in SpecOptLists(variant) :
          opts = [i \in Inst |-> IF i = 1 THEN os ELSE <<WithPrefix("ab")>>]
    /\ rc = [i \in Inst |-> Construct(variant, i, opts[i])]
    /\ store = [ek \in {cacheKey(rc[1], "k")} |-> Absent]
    /\ active = [p \in ProviderIds |-> 0]
    /\ call = [c \in ConcCallers |-> Idle]
    /\ hist = [ek \in DOMAIN store |-> NoHist]

NextConc ==
    \/ \E c \in ConcCallers, t \in OutTypes :
          Invoke(c, "Get", 1, "k", Zero("User"), 0, t)
    \/ \E c \in ConcCallers, v \in {user1, str1} :
          Invoke(c, "Set", 1, "k", v, 0, "User")
    \/ \E c \in ConcCallers : Invoke(c, "Delete", 1, "k", Zero("User"), 0, "User")
    \/ \E c \in ConcCallers : Proceed(c, "none")

SpecConc == InitConc /\ [][NextConc]_vars

\* C12: whatever calls of other callers overlap it, a served Get that
\* returns a value returns the one the latest successful write to its key
\* had set when Redis answered it, a moment within the call; it returns
\* the not-found sentinel only if at that moment the key had never been set
\* or the latest write was a Delete; and the only other error it returns
\* is the codec's, for a stored value of another type than the output's
C12_ConcurrentGet ==
    \A c \in ConcCallers :
        Served(c, "Get")
        => /\ call[c].err = "nil"
                => (call[c].seen.kind = "set" /\ call[c].out = call[c].seen.val)
           /\ call[c].err = NotFound(variant) => call[c].seen.kind \in {"none", "del"}
           /\ call[c].err \notin {"nil", NotFound(variant)}
                => (call[c].err = "ErrUnmarshal" /\ call[c].seen.kind = "set"
                    /\ ~Fits(c, call[c].seen.val))

\* one caller's Get returned the value that the other caller's Set, the
\* latest write to the key, had stored
C12_Witness ==
    /\ call["c1"].pc = "done" /\ call["c1"].op = "Get" /\ call["c1"].err = "nil"
    /\ call["c1"].out = str1
    /\ call["c2"].pc = "done" /\ call["c2"].op = "Set"
    /\ hist[cacheKey(rc[1], "k")] = Wrote("set", str1, 0)

\* the store is reachable and answers, and the callers' goroutines run: a
\* call that can take its connection does take it and returns
Fairness == \A c \in ConcCallers : WF_vars(Proceed(c, "none"))

SpecLive == SpecConc /\ Fairness

\* C13: every call that is issued returns
C13_EveryCallReturns ==
    \A c \in ConcCallers : (call[c].pc = "waitPool") ~> (call[c].pc = "done")

\* the calls in flight on the provider p
InFlight(p) ==
    {c \in DOMAIN call : call[c].pc = "waitPool" /\ rc[call[c].inst].redisPool.id = p}

\* C14: no more connections are checked out of a pool than calls are in
\* flight on it: a call that has returned has given its connection back
C14_ConnectionsGivenBack ==
    \A p \in ProviderIds : active[p] <= Cardinality(InFlight(p))

-----------------------------------------------------------------------------
(* The dial of a new connection (SpecNew).                                 *)

\* C15: on a connection dialled for an instance that has a password set,
\* SELECT is sent only after AUTH
C15_AuthBeforeSelect ==
    \A c \in Callers :
        (call[c].pc = "done" /\ rc[call[c].inst].password # "")
        => \A n \in DOMAIN call[c].dialed :
              call[c].dialed[n] = "SELECT"
              => \E m \in 1..(n - 1) : call[c].dialed[m] = "AUTH"

-----------------------------------------------------------------------------
(* Expirations the store is sent (Spec).                                   *)

\* C16: a Set with an expiration greater than 0 whose command reached the
\* store over a working connection is accepted by the store
C16_PositiveExpirationAccepted ==
    \A c \in Callers :
        (Served(c, "Set") /\ call[c].via # "nil" /\ call[c].dur > 0)
        => call[c].err = "nil"

-----------------------------------------------------------------------------
(* Entries shared across prefixes (SpecIso).                               *)

\* C17: a Set or Delete on an instance changes, for no instance built with
\* a different prefix, what a Get of any logical key returns
C17_NoSharedEntry ==
    [][\A c \in Callers :
          (call'[c].pc = "done" /\ call'[c].op \in {"Set", "Delete"}
              /\ call[c] # call'[c])
          => \A j \in Inst :
                rc[j].prefix # rc[call'[c].inst].prefix
                => \A k \in Keys, t \in OutTypes :
                      GetView(store', j, k, t) = GetView(store, j, k, t)]_vars

-----------------------------------------------------------------------------
(* A value the codec refuses (Spec).                                       *)

\* C18: a Set of a value that marshal refuses returns marshal's error,
\* asks no pool or client for a connection, sends no command, and leaves
\* the keyspace (values and remaining times-to-live) and the pools as they
\* were
C18_MarshalFailure ==
    [][\A c \in Callers :
          (call'[c].pc = "done" /\ call'[c].op = "Set"
              /\ marshal(call'[c].val).err # "nil" /\ call'[c] # call[c])
          => /\ call'[c].err = marshal(call'[c].val).err
             /\ call'[c].via = "nil" /\ call'[c].sent = 0
             /\ store' = store /\ active' = active]_vars

\* a Set of a channel returned the codec's error while its key held an
\* entry with a time-to-live
C18_Witness ==
    \E c \in Callers :
        /\ call[c].pc = "done" /\ call[c].op = "Set" /\ call[c].val = Chan
        /\ call[c].err = "ErrMarshal"
        /\ call[c].present /\ store[cacheKey(rc[call[c].inst], call[c].key)].expires

-----------------------------------------------------------------------------
(* The address of the client the cache builds (SpecNew).                   *)

HasOption(os, name) == \E n \in DOMAIN os : os[n].name = name

\* C19: a call on an instance of the go-redis generation that was built
\* with client options and without an address option, and that made its
\* own client, goes to the address the client options carry, and the
\* caller's options record is as the caller made it
C19_ClientOptionsAddress ==
    \A c \in Callers :
        (/\ variant = "goredis"
         /\ call[c].pc = "done" /\ call[c].via = OwnId(call[c].inst)
         /\ HasOption(opts[call[c].inst], "WithClientOptions")
         /\ ~HasOption(opts[call[c].inst], "WithAddr"))
        => /\ rc[call[c].inst].redisPool.host = CallerOptions.Addr
           /\ rc[call[c].inst].clientOptions = CallerOptions

====
